---- MODULE Spec2Model ----
(***************************************************************************)
(* A model of match_ids.py: run() exports two annotated records to FASTA   *)
(* files, drives diamond (makedb, blastp), filters the tabular output with *)
(* find_matches, prints the report and removes the intermediate files.     *)
(*                                                                         *)
(* Text (paths, alignment output, lines, fields) is a sequence of          *)
(* one-character strings, so that splitting, parsing and name derivation   *)
(* are computed as the code computes them.                                 *)
(***************************************************************************)
EXTENDS Integers, Sequences, FiniteSets, TLC

VARIABLES
    reference,       \* run's argument: path of the reference record
    query,           \* run's argument: path of the query record
    similarity,      \* run's argument: the threshold, a float
    keep,            \* run's argument: keep the intermediate files
    diamond_stdout,  \* what diamond blastp writes for these two inputs
    pc,              \* position in run()
    exc,             \* the exception that ended run(), or "none"
    files,           \* the intermediate files on disk (working directory)
    calls,           \* the exports and subprocess invocations made so far
    fasta_file,      \* dump_fasta's local
    referece_fasta,  \* run's local (spelled as in the source)
    query_fasta,     \* run's local
    ret,             \* run's local: the CompletedProcess of blastp
    lines,           \* find_matches: output.splitlines()
    i,               \* find_matches: index of the next line of the loop
    matches,         \* find_matches: the insertion-ordered dict
    stdout,          \* lines printed to standard output
    stderr           \* lines printed to standard error

vars == <<reference, query, similarity, keep, diamond_stdout, pc, exc, files,
          calls, fasta_file, referece_fasta, query_fasta, ret, lines, i, matches, stdout,
          stderr>>

----------------------------------------------------------------------------
(* Bounds of the model.                                                    *)

\* the longest input path, in characters
MaxPathLen == 3
\* the most lines the alignment output has
MaxLines == 3

----------------------------------------------------------------------------
(* Text helpers.                                                           *)

Chars(s) == {s[k] : k \in DOMAIN s}

RECURSIVE Concat(_)
\* the concatenation of a sequence of texts
Concat(ss) == IF ss = <<>> THEN <<>> ELSE Head(ss) \o Concat(Tail(ss))

RECURSIVE Join(_, _)
\* sep.join(ss)
Join(ss, sep) ==
    IF ss = <<>> THEN <<>>
    ELSE IF Len(ss) = 1 THEN ss[1]
    ELSE ss[1] \o sep \o Join(Tail(ss), sep)

\* the position of the last occurrence of c in s, 0 when there is none
\* (str.rfind, one-based)
RFind(s, c) ==
    LET at == {k \in DOMAIN s : s[k] = c}
    IN IF at = {} THEN 0 ELSE CHOOSE k \in at : \A j \in at : j <= k

RECURSIVE SplitOn(_, _)
\* s.split(c) for a one-character separator c: never empty, ''.split(c) = ['']
SplitOn(s, c) ==
    LET at == {k \in DOMAIN s : s[k] = c}
    IN IF at = {} THEN <<s>>
       ELSE LET k == CHOOSE x \in at : \A y \in at : x <= y
            IN <<SubSeq(s, 1, k - 1)>> \o SplitOn(SubSeq(s, k + 1, Len(s)), c)

\* the line boundaries of str.splitlines that the text alphabet holds
LineBreaks == {"\n", "\r"}

RECURSIVE splitlines(_)
\* str.splitlines(): breaks at \n, \r and \r\n, and a final line break opens
\* no further (empty) line
splitlines(s) ==
    LET at == {k \in DOMAIN s : s[k] \in LineBreaks}
    IN IF s = <<>> THEN <<>>
       ELSE IF at = {} THEN <<s>>
       ELSE LET k == CHOOSE x \in at : \A y \in at : x <= y
                crlf == s[k] = "\r" /\ k < Len(s) /\ s[k + 1] = "\n"
                rest == SubSeq(s, (IF crlf THEN k + 2 ELSE k + 1), Len(s))
            IN <<SubSeq(s, 1, k - 1)>> \o splitlines(rest)

----------------------------------------------------------------------------
(* Floats.  A float is [kind, neg, m, e]: kind "num" is the number         *)
(* (-1)^neg * m * 10^e with m not divisible by 10 (zero is m = 0, e = 0),  *)
(* kind "inf" is a signed infinity and kind "nan" is not-a-number.  A      *)
(* decimal of up to 15 significant digits denotes one double and is that   *)
(* double's repr, so on the decimals of the model comparison and repr are  *)
(* those of the doubles.                                                   *)

Digits == {"0", "1", "2", "3", "4", "5", "6", "7", "8", "9"}

DigitVal(c) ==
    CASE c = "0" -> 0 [] c = "1" -> 1 [] c = "2" -> 2 [] c = "3" -> 3
      [] c = "4" -> 4 [] c = "5" -> 5 [] c = "6" -> 6 [] c = "7" -> 7
      [] c = "8" -> 8 [] c = "9" -> 9

DigitChar(d) == <<"0", "1", "2", "3", "4", "5", "6", "7", "8", "9">>[d + 1]

AllDigits(s) == \A k \in DOMAIN s : s[k] \in Digits

RECURSIVE ToNat(_)
ToNat(ds) ==
    IF ds = <<>> THEN 0
    ELSE 10 * ToNat(SubSeq(ds, 1, Len(ds) - 1)) + DigitVal(ds[Len(ds)])

RECURSIVE NatToText(_)
NatToText(n) ==
    IF n < 10 THEN <<DigitChar(n)>>
    ELSE NatToText(n \div 10) \o <<DigitChar(n % 10)>>

RECURSIVE Pow10(_)
Pow10(k) == IF k <= 0 THEN 1 ELSE 10 * Pow10(k - 1)

RECURSIVE Zeros(_)
Zeros(k) == IF k <= 0 THEN <<>> ELSE <<"0">> \o Zeros(k - 1)

NaN == [kind |-> "nan", neg |-> FALSE, m |-> 0, e |-> 0]
Inf(neg) == [kind |-> "inf", neg |-> neg, m |-> 0, e |-> 0]
\* the outcome of float(s) when it raises ValueError
ValueError == [kind |-> "ValueError", neg |-> FALSE, m |-> 0, e |-> 0]

RECURSIVE Num(_, _, _)
Num(neg, m, e) ==
    IF m = 0 THEN [kind |-> "num", neg |-> neg, m |-> 0, e |-> 0]
    ELSE IF m % 10 = 0 THEN Num(neg, m \div 10, e + 1)
    ELSE [kind |-> "num", neg |-> neg, m |-> m, e |-> e]

\* str.lower on the letters float() reads
Lower(c) ==
    CASE c = "E" -> "e" [] c = "N" -> "n" [] c = "A" -> "a" [] c = "I" -> "i"
      [] c = "F" -> "f" [] c = "T" -> "t" [] c = "Y" -> "y" [] OTHER -> c

RECURSIVE Strip(_)
\* float() ignores leading and trailing whitespace; a field holds no tab
\* and no line break, so the whitespace of a field is the space
Strip(s) ==
    IF s = <<>> THEN s
    ELSE IF Head(s) = " " THEN Strip(Tail(s))
    ELSE IF s[Len(s)] = " " THEN Strip(SubSeq(s, 1, Len(s) - 1))
    ELSE s

\* the position of the first c in s, Len(s) + 1 when there is none
First(s, c) ==
    LET at == {k \in DOMAIN s : s[k] = c}
    IN IF at = {} THEN Len(s) + 1 ELSE CHOOSE x \in at : \A y \in at : x <= y

\* s up to its first c, and s after it
Before(s, c) == SubSeq(s, 1, First(s, c) - 1)
After(s, c) == SubSeq(s, First(s, c) + 1, Len(s))

Negative(t) == t /= <<>> /\ t[1] = "-"
Unsign(t) == IF t /= <<>> /\ t[1] \in {"+", "-"} THEN Tail(t) ELSE t
LowerText(s) == [k \in DOMAIN s |-> Lower(s[k])]

\* digits [. [digits]] or . digits
MantissaOk(mant) ==
    /\ AllDigits(Before(mant, "."))
    /\ AllDigits(After(mant, "."))
    /\ Len(Before(mant, ".")) + Len(After(mant, ".")) >= 1

\* nothing, or e [sign] digits
ExponentOk(u) ==
    \/ "e" \notin Chars(u)
    \/ /\ Unsign(After(u, "e")) /= <<>>
       /\ AllDigits(Unsign(After(u, "e")))

ExponentVal(u) ==
    IF Negative(After(u, "e")) THEN 0 - ToNat(Unsign(After(u, "e")))
    ELSE ToNat(Unsign(After(u, "e")))

\* the decimal u (lower case, no sign), or ValueError
Decimal(neg, u) ==
    LET mant == Before(u, "e")
    IN IF MantissaOk(mant) /\ ExponentOk(u)
       THEN Num(neg, ToNat(Before(mant, ".") \o After(mant, ".")),
                ExponentVal(u) - Len(After(mant, ".")))
       ELSE ValueError

\* float(s): [sign] ("nan" | "inf" | "infinity" | decimal [exponent]), any
\* letter case; ValueError otherwise
float(s) ==
    LET u == LowerText(Unsign(Strip(s)))
    IN IF u = <<"n", "a", "n">> THEN NaN
       ELSE IF u \in {<<"i", "n", "f">>,
                      <<"i", "n", "f", "i", "n", "i", "t", "y">>}
       THEN Inf(Negative(Strip(s)))
       ELSE Decimal(Negative(Strip(s)), u)

\* the number a "num" float stands for, in units of 10^lo
Scaled(a, lo) == (IF a.neg THEN 0 - 1 ELSE 1) * a.m * Pow10(a.e - lo)

\* a >= b on floats: false when either is nan
GE(a, b) ==
    IF a.kind = "nan" \/ b.kind = "nan" THEN FALSE
    ELSE IF a.kind = "inf" THEN (~a.neg) \/ (b.kind = "inf" /\ b.neg)
    ELSE IF b.kind = "inf" THEN b.neg
    ELSE LET lo == IF a.e <= b.e THEN a.e ELSE b.e
         IN Scaled(a, lo) >= Scaled(b, lo)

\* f"{x:0.1f}": one decimal place, ties to even
Fmt1(x) ==
    IF x.kind = "nan" THEN <<"n", "a", "n">>
    ELSE IF x.kind = "inf"
    THEN (IF x.neg THEN <<"-">> ELSE <<>>) \o <<"i", "n", "f">>
    ELSE LET d == Pow10((0 - 1) - x.e)          \* 1 when x has <= 1 decimal
             n == x.m * Pow10(x.e + 1)
             q == n \div d
             r == n % d
             up == 2 * r > d \/ (2 * r = d /\ q % 2 = 1)
             t == IF up THEN q + 1 ELSE q      \* x in tenths, rounded
         IN (IF x.neg THEN <<"-">> ELSE <<>>)
            \o NatToText(t \div 10) \o <<".">> \o <<DigitChar(t % 10)>>

\* f"{x}", the repr of a float: the shortest digits, in exponent notation
\* when the decimal exponent is below -4 or at least 16
Repr(x) ==
    IF x.kind = "nan" THEN <<"n", "a", "n">>
    ELSE IF x.kind = "inf"
    THEN (IF x.neg THEN <<"-">> ELSE <<>>) \o <<"i", "n", "f">>
    ELSE LET D == NatToText(x.m)
             n == Len(D)
             decpt == IF x.m = 0 THEN 1 ELSE n + x.e
             x10 == decpt - 1
             ax == IF x10 < 0 THEN 0 - x10 ELSE x10
             body ==
                 IF decpt > 16 \/ decpt < 0 - 3
                 THEN <<D[1]>>
                      \o (IF n > 1 THEN <<".">> \o Tail(D) ELSE <<>>)
                      \o <<"e", (IF x10 < 0 THEN "-" ELSE "+")>>
                      \o (IF ax < 10 THEN <<"0">> ELSE <<>>) \o NatToText(ax)
                 ELSE IF decpt <= 0
                 THEN <<"0", ".">> \o Zeros(0 - decpt) \o D
                 ELSE IF decpt >= n
                 THEN D \o Zeros(decpt - n) \o <<".", "0">>
                 ELSE SubSeq(D, 1, decpt) \o <<".">> \o SubSeq(D, decpt + 1, n)
         IN (IF x.neg THEN <<"-">> ELSE <<>>) \o body

----------------------------------------------------------------------------
(* Derived file names.                                                     *)

\* REFERENCE_DB_NAME = "reference"
REFERENCE_DB_NAME == <<"r", "e", "f", "e", "r", "e", "n", "c", "e">>

\* f"{REFERENCE_DB_NAME}.dmnd", the index diamond makedb writes for --db
DbFile == REFERENCE_DB_NAME \o <<".", "d", "m", "n", "d">>

\* os.path.basename (posixpath): what follows the last "/"
basename(p) == SubSeq(p, RFind(p, "/") + 1, Len(p))

RECURSIVE SplitextScan(_, _, _)
\* the loop of genericpath._splitext: skip the leading dots of the file name
SplitextScan(p, filenameIndex, dotIndex) ==
    IF filenameIndex < dotIndex
    THEN IF p[filenameIndex] /= "."
         THEN <<SubSeq(p, 1, dotIndex - 1), SubSeq(p, dotIndex, Len(p))>>
         ELSE SplitextScan(p, filenameIndex + 1, dotIndex)
    ELSE <<p, <<>>>>

\* os.path.splitext: <<root, ext>>, ext from the last dot on unless only
\* dots precede it in the file name
splitext(p) ==
    LET sepIndex == RFind(p, "/")
        dotIndex == RFind(p, ".")
    IN IF dotIndex > sepIndex THEN SplitextScan(p, sepIndex + 1, dotIndex)
       ELSE <<p, <<>>>>

\* a variant that forgets os.path.basename
derive_fasta_name_nobase(filename) ==
    splitext(filename)[1] \o <<".", "f", "a">>

derive_fasta_name(filename) ==
    LET base == basename(filename)
        root == splitext(base)[1]
    IN root \o <<".", "f", "a">>

----------------------------------------------------------------------------
(* Matches and the collection.                                             *)

\* Match.__init__
Match(reference_id, pident, evalue, bitscore) ==
    [reference_id |-> reference_id, pident |-> pident, evalue |-> evalue,
     bitscore |-> bitscore]

\* Match.to_table
to_table(match) ==
    <<match.reference_id, Fmt1(match.pident), Repr(match.evalue),
      Fmt1(match.bitscore)>>

\* The dict is the sequence of its items, [key, val], in insertion order.
Keys(ms) == {ms[k].key : k \in DOMAIN ms}

\* a variant that puts a new key first
DictAppend_front(ms, qid, match) ==
    LET d == IF qid \in Keys(ms) THEN ms
             ELSE <<[key |-> qid, val |-> <<>>]>> \o ms
    IN [k \in DOMAIN d |->
           IF d[k].key = qid
           THEN [key |-> qid, val |-> Append(d[k].val, match)]
           ELSE d[k]]

\* matches[qid].append(match) on a defaultdict(list): a missing key is
\* inserted last, with an empty list, by the lookup
DictAppend(ms, qid, match) ==
    LET d == IF qid \in Keys(ms) THEN ms
             ELSE Append(ms, [key |-> qid, val |-> <<>>])
    IN [k \in DOMAIN d |->
           IF d[k].key = qid
           THEN [key |-> qid, val |-> Append(d[k].val, match)]
           ELSE d[k]]

\* a variant that lets extra fields pass
Unpacks_atleast(fields) == Len(fields) >= 5

\* the tuple unpacking of line 77 succeeds
Unpacks(fields) == Len(fields) = 5

\* a variant without the filter
Hit_always(pident, threshold) == TRUE

\* a variant with a strict comparison
Hit_strict(pident, threshold) ==
    GE(pident, threshold) /\ ~GE(threshold, pident)

\* the test of line 81
Hit(pident, threshold) == GE(pident, threshold)

\* a variant that looks the query id up before it tests the threshold
ProcessLine_touch(ms, line, threshold) ==
    LET fields == SplitOn(line, "\t")
        ok == /\ Len(fields) = 5
              /\ float(fields[3]) /= ValueError
              /\ float(fields[4]) /= ValueError
              /\ float(fields[5]) /= ValueError
        touched == IF ok /\ fields[1] \notin Keys(ms)
                   THEN Append(ms, [key |-> fields[1], val |-> <<>>])
                   ELSE ms
    IN IF ~ok THEN [matches |-> ms, failed |-> TRUE]
       ELSE IF GE(float(fields[3]), threshold)
       THEN [matches |-> DictAppend(ms, fields[1],
                            Match(fields[2], float(fields[3]),
                                  float(fields[4]), float(fields[5]))),
             failed |-> FALSE]
       ELSE [matches |-> touched, failed |-> FALSE]

\* a variant that appends the match before it parses the last two columns
ProcessLine_early(ms, line, threshold) ==
    LET fields == SplitOn(line, "\t")
        rest == Len(fields) = 5 /\ float(fields[4]) /= ValueError
                /\ float(fields[5]) /= ValueError
    IN IF Len(fields) /= 5 \/ float(fields[3]) = ValueError
       THEN [matches |-> ms, failed |-> TRUE]
       ELSE IF GE(float(fields[3]), threshold)
       THEN [matches |-> DictAppend(ms, fields[1],
                            Match(fields[2], float(fields[3]),
                                  float(fields[4]), float(fields[5]))),
             failed |-> ~rest]
       ELSE [matches |-> ms, failed |-> ~rest]

\* One pass of the loop body of find_matches: the collection after it, and
\* whether ValueError was raised (and the line printed to standard error).
ProcessLine(ms, line, threshold) ==
    LET fields == SplitOn(line, "\t")
    IN IF ~Unpacks(fields) THEN [matches |-> ms, failed |-> TRUE]
       ELSE LET qid == fields[1]
                rid == fields[2]
                pident == float(fields[3])
                evalue == float(fields[4])
                bitscore == float(fields[5])
            IN IF pident = ValueError \/ evalue = ValueError
                  \/ bitscore = ValueError
               THEN [matches |-> ms, failed |-> TRUE]
               ELSE IF Hit(pident, threshold)
               THEN [matches |-> DictAppend(ms, qid,
                                    Match(rid, pident, evalue, bitscore)),
                     failed |-> FALSE]
               ELSE [matches |-> ms, failed |-> FALSE]

\* print("failed to split", line, file=sys.stderr)
Diagnostic(line) ==
    <<"f", "a", "i", "l", "e", "d", " ", "t", "o", " ", "s", "p", "l", "i",
      "t">> \o <<" ">> \o line

\* print(qid, *match.to_table(), sep="\t")
ReportLine(qid, match) == Join(<<qid>> \o to_table(match), <<"\t">>)

RECURSIVE ReportLines(_)
\* the two loops of lines 44-46 over matches.items()
ReportLines(ms) ==
    IF ms = <<>> THEN <<>>
    ELSE [k \in DOMAIN ms[1].val |-> ReportLine(ms[1].key, ms[1].val[k])]
         \o ReportLines(Tail(ms))

----------------------------------------------------------------------------
(* Inputs.                                                                 *)

\* all sequences over S of length lo..hi
SeqsOf(S, lo, hi) == UNION {[1..n -> S] : n \in lo..hi}

PathChars == {"/", ".", "g"}
AllPaths == SeqsOf(PathChars, 1, MaxPathLen)

Row(fields) == Join(fields, <<"\t">>)
Q1 == <<"q", "1">>
Q2 == <<"q", "2">>
R1 == <<"r", "1">>
R2 == <<"r", "2">>
E10 == <<"1", "e", "-", "1", "0">>

\* well-formed rows
LineQ1High == Row(<<Q1, R1, <<"9", "5", ".", "5">>, E10, <<"1", "2", "0", ".", "3">>>>)
LineQ1Top == Row(<<Q1, R2, <<"1", "0", "0">>, <<"0", ".", "0">>, <<"2", "5", "0">>>>)
LineQ2Edge == Row(<<Q2, R1, <<"9", "6", ".", "0">>, <<"2", "E", "-", "5">>, <<"9", "9">>>>)
LineQ2NaN == Row(<<Q2, R2, <<"n", "a", "n">>, E10, <<"1", "0">>>>)
\* rows that do not unpack into five fields
LineThree == Row(<<Q1, R1, <<"n", "o", "t", "-", "a", "-", "n", "u", "m", "b", "e", "r">>>>)
LineSix == Row(<<Q2, R1, <<"9", "9", ".", "9">>, E10, <<"3", "0", "0">>, <<"x">>>>)
LineEmpty == <<>>
\* five fields, one of them no number
LineBadPident == Row(<<Q1, R1, <<"9", "5", ",", "5">>, E10, <<"1", "2", "0">>>>)
LineBadEvalue == Row(<<Q2, R2, <<"9", "8", ".", "1">>, <<"e", "-", "5">>, <<"1", "2", "0">>>>)
LineBadBitscore == Row(<<Q1, R1, <<"9", "9", ".", "9">>, E10, <<>>>>)

LineSet == {LineQ1High, LineQ1Top, LineQ2Edge, LineQ2NaN,
            LineThree, LineSix, LineEmpty,
            LineBadPident, LineBadEvalue, LineBadBitscore}

\* the text diamond writes: every row ended by a line feed
Text(ls) == Concat([k \in DOMAIN ls |-> ls[k] \o <<"\n">>])

Outputs == {Text(ls) : ls \in SeqsOf(LineSet, 0, MaxLines)}

\* --similarity, parsed by argparse with type=float; 90.0 is the default
SimilarityArgs == {<<"9", "0", ".", "0">>, <<"9", "6">>}

\* ret before blastp has run
NoRet == [returncode |-> 0 - 1, stdout |-> <<>>]

InitRun ==
    /\ pc = "dump_reference"
    /\ exc = "none"
    /\ files = {}
    /\ calls = <<>>
    /\ fasta_file = <<>>
    /\ referece_fasta = <<>>
    /\ query_fasta = <<>>
    /\ ret = NoRet
    /\ lines = <<>>
    /\ i = 1
    /\ matches = <<>>
    /\ stdout = <<>>
    /\ stderr = <<>>

\* one pair of records, files not kept, every threshold and every
\* alignment output
Init ==
    /\ reference = <<"r", ".", "g", "b", "k">>
    /\ query = <<"q", ".", "g", "b", "k">>
    /\ similarity \in {float(a) : a \in SimilarityArgs}
    /\ keep = FALSE
    /\ diamond_stdout \in Outputs
    /\ InitRun

\* every pair of paths, one alignment output
InitPaths ==
    /\ reference \in AllPaths
    /\ query \in AllPaths
    /\ similarity = float(<<"9", "0", ".", "0">>)
    /\ keep \in BOOLEAN
    /\ diamond_stdout = Text(<<LineQ1High, LineThree>>)
    /\ InitRun

----------------------------------------------------------------------------
(* run().                                                                  *)

Call(op, file, returncode) ==
    [op |-> op, file |-> file, returncode |-> returncode]

\* an uncaught exception ends the process
Raise(e) == exc' = e /\ pc' = "exit"

\* a path whose last component is empty, "." or ".." names a directory
NamesFile(filename) ==
    basename(filename) \notin {<<>>, <<".">>, <<".", ".">>}

\* The outcomes of dump_fasta(filename): it returns ("ok"); seqio.parse
\* raises (line 91, "parse"); reading the records raises once the output
\* file is open (line 95, "find_features"); a feature has no locus_tag
\* (line 96, "KeyError").  What names a directory is never read.
DumpOutcomes(filename) ==
    IF NamesFile(filename) THEN {"ok", "parse", "find_features", "KeyError"}
    ELSE {"parse", "find_features"}

\* referece_fasta = dump_fasta(reference)
DumpReference ==
    /\ pc = "dump_reference"
    /\ \E outcome \in DumpOutcomes(reference) :
        /\ calls' = Append(calls, Call("dump_fasta", reference,
                                       IF outcome = "ok" THEN 0 ELSE 1))
        /\ IF outcome = "parse" THEN UNCHANGED <<fasta_file, files>>
           ELSE /\ fasta_file' = derive_fasta_name(reference)
                /\ files' = files \cup {fasta_file'}
        /\ IF outcome = "ok"
           THEN referece_fasta' = fasta_file' /\ pc' = "dump_query"
                /\ UNCHANGED exc
           ELSE Raise(outcome) /\ UNCHANGED referece_fasta
    /\ UNCHANGED <<reference, query, similarity, keep, diamond_stdout,
                   query_fasta, ret, lines, i, matches, stdout, stderr>>

\* query_fasta = dump_fasta(query)
DumpQuery ==
    /\ pc = "dump_query"
    /\ \E outcome \in DumpOutcomes(query) :
        /\ calls' = Append(calls, Call("dump_fasta", query,
                                       IF outcome = "ok" THEN 0 ELSE 1))
        /\ IF outcome = "parse" THEN UNCHANGED <<fasta_file, files>>
           ELSE /\ fasta_file' = derive_fasta_name(query)
                /\ files' = files \cup {fasta_file'}
        /\ IF outcome = "ok"
           THEN query_fasta' = fasta_file' /\ pc' = "makedb"
                /\ UNCHANGED exc
           ELSE Raise(outcome) /\ UNCHANGED query_fasta
    /\ UNCHANGED <<reference, query, similarity, keep, diamond_stdout,
                   referece_fasta, ret, lines, i, matches, stdout, stderr>>

\* a variant of the call without check=True
Makedb_unchecked ==
    /\ pc = "makedb"
    /\ \E returncode \in {0, 1}, written \in BOOLEAN :
        /\ returncode = 0 => written
        /\ calls' = Append(calls, Call("makedb", referece_fasta, returncode))
        /\ files' = IF written THEN files \cup {DbFile} ELSE files
    /\ pc' = "blastp"
    /\ UNCHANGED <<fasta_file, reference, query, similarity, keep, diamond_stdout, exc,
                   referece_fasta, query_fasta, ret, lines, i, matches,
                   stdout, stderr>>

\* subprocess.run(["diamond", "makedb", ...], check=True): a non-zero
\* status raises CalledProcessError; diamond writes the index when it
\* succeeds and may have written it when it fails
Makedb ==
    /\ pc = "makedb"
    /\ \E returncode \in {0, 1}, written \in BOOLEAN :
        /\ returncode = 0 => written
        /\ calls' = Append(calls, Call("makedb", referece_fasta, returncode))
        /\ files' = IF written THEN files \cup {DbFile} ELSE files
        /\ IF returncode /= 0 THEN Raise("CalledProcessError")
           ELSE pc' = "blastp" /\ UNCHANGED exc
    /\ UNCHANGED <<fasta_file, reference, query, similarity, keep, diamond_stdout,
                   referece_fasta, query_fasta, ret, lines, i, matches,
                   stdout, stderr>>

\* ret = subprocess.run(["diamond", "blastp", ...]): no check here; a
\* failed diamond may have written nothing or its table
Blastp ==
    /\ pc = "blastp"
    /\ \E returncode \in {0, 1}, out \in {<<>>, diamond_stdout} :
        /\ returncode = 0 => out = diamond_stdout
        /\ calls' = Append(calls, Call("blastp", query_fasta, returncode))
        /\ ret' = [returncode |-> returncode, stdout |-> out]
    /\ pc' = "check_returncode"
    /\ UNCHANGED <<fasta_file, reference, query, similarity, keep, diamond_stdout, exc,
                   files, referece_fasta, query_fasta, lines, i, matches,
                   stdout, stderr>>

\* a variant that removes the intermediate files before it raises
CheckReturncode_cleaning ==
    /\ pc = "check_returncode"
    /\ IF ret.returncode /= 0
       THEN /\ Raise("CalledProcessError")
            /\ files' = IF keep THEN files
                        ELSE files \ {referece_fasta, query_fasta, DbFile}
       ELSE pc' = "find_matches" /\ UNCHANGED <<exc, files>>
    /\ UNCHANGED <<fasta_file, reference, query, similarity, keep, diamond_stdout,
                   calls, referece_fasta, query_fasta, ret, lines, i,
                   matches, stdout, stderr>>

\* ret.check_returncode()
CheckReturncode ==
    /\ pc = "check_returncode"
    /\ IF ret.returncode /= 0 THEN Raise("CalledProcessError")
       ELSE pc' = "find_matches" /\ UNCHANGED exc
    /\ UNCHANGED <<fasta_file, reference, query, similarity, keep, diamond_stdout, files,
                   calls, referece_fasta, query_fasta, ret, lines, i,
                   matches, stdout, stderr>>

\* find_matches(ret.stdout, similarity), up to the loop
FindMatchesEnter ==
    /\ pc = "find_matches"
    /\ matches' = <<>>
    /\ lines' = splitlines(ret.stdout)
    /\ i' = 1
    /\ pc' = "for_line"
    /\ UNCHANGED <<fasta_file, reference, query, similarity, keep, diamond_stdout, exc,
                   files, calls, referece_fasta, query_fasta, ret, stdout,
                   stderr>>

\* one pass of the loop of find_matches
FindMatchesLine ==
    /\ pc = "for_line"
    /\ i <= Len(lines)
    /\ LET r == ProcessLine(matches, lines[i], similarity)
       IN /\ matches' = r.matches
          /\ stderr' = IF r.failed THEN Append(stderr, Diagnostic(lines[i]))
                       ELSE stderr
    /\ i' = i + 1
    /\ UNCHANGED <<fasta_file, reference, query, similarity, keep, diamond_stdout, pc,
                   exc, files, calls, referece_fasta, query_fasta, ret, lines,
                   stdout>>

\* find_matches returns and run prints the report
Report ==
    /\ pc = "for_line"
    /\ i > Len(lines)
    /\ stdout' = stdout \o ReportLines(matches)
    /\ pc' = "if_not_keep"
    /\ UNCHANGED <<fasta_file, reference, query, similarity, keep, diamond_stdout, exc,
                   files, calls, referece_fasta, query_fasta, ret, lines, i,
                   matches, stderr>>

\* os.remove(f): FileNotFoundError when f is not there
os_remove(f, next) ==
    IF f \in files THEN files' = files \ {f} /\ pc' = next /\ UNCHANGED exc
    ELSE Raise("FileNotFoundError") /\ UNCHANGED files

\* if not keep: os.remove(referece_fasta)   (or run returns)
RemoveReference ==
    /\ pc = "if_not_keep"
    /\ IF keep THEN pc' = "exit" /\ UNCHANGED <<exc, files>>
       ELSE os_remove(referece_fasta, "remove_query")
    /\ UNCHANGED <<fasta_file, reference, query, similarity, keep, diamond_stdout, calls,
                   referece_fasta, query_fasta, ret, lines, i, matches,
                   stdout, stderr>>

\* os.remove(query_fasta)
RemoveQuery ==
    /\ pc = "remove_query"
    /\ os_remove(query_fasta, "remove_db")
    /\ UNCHANGED <<fasta_file, reference, query, similarity, keep, diamond_stdout, calls,
                   referece_fasta, query_fasta, ret, lines, i, matches,
                   stdout, stderr>>

\* os.remove(f"{REFERENCE_DB_NAME}.dmnd"), and run returns
RemoveDb ==
    /\ pc = "remove_db"
    /\ os_remove(DbFile, "exit")
    /\ UNCHANGED <<fasta_file, reference, query, similarity, keep, diamond_stdout, calls,
                   referece_fasta, query_fasta, ret, lines, i, matches,
                   stdout, stderr>>

Next ==
    \/ DumpReference
    \/ DumpQuery
    \/ Makedb
    \/ Blastp
    \/ CheckReturncode
    \/ FindMatchesEnter
    \/ FindMatchesLine
    \/ Report
    \/ RemoveReference
    \/ RemoveQuery
    \/ RemoveDb

Spec == Init /\ [][Next]_vars

SpecPaths == InitPaths /\ [][Next]_vars

\* the process has ended, and its exit status
Exited == pc = "exit"
ExitStatus == IF exc = "none" THEN 0 ELSE 1

----------------------------------------------------------------------------
(* What the properties speak of, stated on the text of the lines.          *)

Fields(line) == SplitOn(line, "\t")
FiveFields(line) == Len(Fields(line)) = 5
Numeric(field) == float(field) /= ValueError

\* five fields, the last three of them numbers
WellFormed(line) ==
    LET f == Fields(line)
    IN  Len(f) = 5 /\ Numeric(f[3]) /\ Numeric(f[4]) /\ Numeric(f[5])

\* well-formed with a percent identity of at least the threshold
Survives(line) ==
    LET f == Fields(line)
    IN  /\ Len(f) = 5 /\ Numeric(f[3]) /\ Numeric(f[4]) /\ Numeric(f[5])
        /\ GE(float(f[3]), similarity)

\* the lines the loop of find_matches has passed
Processed == {n \in DOMAIN lines : n < i}

\* the query id a line of text starts with
QidOf(line) == Fields(line)[1]

\* the report line of a surviving line
Expected(line) ==
    LET f == Fields(line)
    IN  Join(<<f[1], f[2], Fmt1(float(f[3])), Repr(float(f[4])),
               Fmt1(float(f[5]))>>, <<"\t">>)

\* the loop is at line n
AtLine == pc = "for_line" /\ i <= Len(lines)

\* run has just printed the report (nothing prints to either stream later)
Reported == pc = "if_not_keep"

----------------------------------------------------------------------------
(* C1: every Match of the collection has a percent identity of at least    *)
(* the threshold, and a well-formed line whose percent identity equals the *)
(* threshold is in the collection that find_matches returns.               *)
C1_AtLeastThreshold ==
    /\ \A k \in DOMAIN matches : \A j \in DOMAIN matches[k].val :
           GE(matches[k].val[j].pident, similarity)
    /\ Reported =>
           \A n \in DOMAIN lines :
               (WellFormed(lines[n])
                /\ float(Fields(lines[n])[3]) = similarity)
               => \E k \in DOMAIN matches : \E j \in DOMAIN matches[k].val :
                      /\ matches[k].key = QidOf(lines[n])
                      /\ matches[k].val[j].reference_id = Fields(lines[n])[2]
                      /\ matches[k].val[j].pident = similarity

\* the loop has kept a match at the threshold and dropped one below it
C1_Witness ==
    /\ Reported
    /\ \E k \in DOMAIN matches : \E j \in DOMAIN matches[k].val :
           matches[k].val[j].pident = similarity
    /\ \E n \in Processed :
           /\ WellFormed(lines[n])
           /\ float(Fields(lines[n])[3]).kind = "num"
           /\ ~GE(float(Fields(lines[n])[3]), similarity)

(* C2: a line that does not split into five fields (the empty line too)    *)
(* leaves the collection as it is, puts exactly one line on the error      *)
(* stream, which holds the text of the line, and the loop goes on to the   *)
(* next line; the loop is left only when every line has been passed.       *)
C2_WrongFieldCount ==
    [][ /\ (AtLine /\ ~FiveFields(lines[i]))
           => /\ matches' = matches
              /\ stderr' = Append(stderr, Diagnostic(lines[i]))
              /\ stdout' = stdout
              /\ pc' = "for_line" /\ i' = i + 1 /\ lines' = lines
              /\ exc' = "none"
        /\ (pc = "for_line" /\ pc' /= "for_line") => i > Len(lines)
      ]_vars

\* the loop has passed a line of three fields, one of six and an empty
\* one, and the report is printed
C2_Witness ==
    /\ Reported
    /\ \E a, b, c \in Processed :
           /\ Len(Fields(lines[a])) < 5 /\ lines[a] /= <<>>
           /\ Len(Fields(lines[b])) > 5
           /\ lines[c] = <<>>
    /\ Len(stderr) = 3
    /\ matches = <<>>

(* C3: a line of five fields of which the percent identity, the e-value or *)
(* the bit score is no number leaves the collection as it is and is        *)
(* printed to the error stream, whichever column it is and whether or not  *)
(* its percent identity meets the threshold.                               *)
C3_NonNumericField ==
    [][ (AtLine /\ FiveFields(lines[i]) /\ ~WellFormed(lines[i]))
        => /\ matches' = matches
           /\ stderr' = Append(stderr, Diagnostic(lines[i]))
           /\ stdout' = stdout
           /\ pc' = "for_line" /\ i' = i + 1
      ]_vars

\* the loop has passed one line for each column, two of them with a
\* percent identity that meets the threshold
C3_Witness ==
    /\ Reported
    /\ \E a, b, c \in Processed :
           /\ FiveFields(lines[a]) /\ ~Numeric(Fields(lines[a])[3])
           /\ FiveFields(lines[b]) /\ ~Numeric(Fields(lines[b])[4])
           /\ GE(float(Fields(lines[b])[3]), similarity)
           /\ FiveFields(lines[c]) /\ ~Numeric(Fields(lines[c])[5])
           /\ GE(float(Fields(lines[c])[3]), similarity)
    /\ Len(stderr) = 3
    /\ matches = <<>>

RECURSIVE QidsOf(_)
\* the query ids that the lines of ls start with
QidsOf(ls) ==
    IF ls = <<>> THEN <<>> ELSE <<QidOf(Head(ls))>> \o QidsOf(Tail(ls))

RECURSIVE ExpectedOf(_)
\* the report lines of the lines of ls
ExpectedOf(ls) ==
    IF ls = <<>> THEN <<>>
    ELSE <<Expected(Head(ls))>> \o ExpectedOf(Tail(ls))

RECURSIVE Pick(_, _, _)
\* the items of xs at the positions where qs holds q
Pick(xs, qs, q) ==
    IF xs = <<>> THEN <<>>
    ELSE (IF Head(qs) = q THEN <<Head(xs)>> ELSE <<>>)
         \o Pick(Tail(xs), Tail(qs), q)

\* the lines of the output that survive, in the order of the output
Survivors == SelectSeq(lines, LAMBDA l : Survives(l))

\* out, whose lines start with the query ids oq, keeps the lines of one
\* query id together, and they are the lines of that query id among exp
\* (which start with the query ids sq), in the order of exp
Grouped(out, oq, exp, sq) ==
    /\ \A a, b, c \in DOMAIN oq :
           (a < b /\ b < c /\ oq[a] = oq[c]) => oq[b] = oq[a]
    /\ \A q \in Chars(oq) \cup Chars(sq) : Pick(out, oq, q) = Pick(exp, sq, q)

\* the query ids oq come in the order in which they first occur in firsts
OrderedBy(oq, firsts) ==
    \A a, b \in DOMAIN oq :
        (a < b /\ oq[a] /= oq[b]) => First(firsts, oq[a]) < First(firsts, oq[b])

(* C4, as claimed: the report lists the query ids in the order in which    *)
(* each was first seen in the alignment output, the matches of one query   *)
(* id contiguous and in the order of their lines.                          *)
C4_FirstSeenOrder ==
    Reported =>
        /\ Grouped(stdout, QidsOf(stdout), ExpectedOf(Survivors),
                   QidsOf(Survivors))
        /\ OrderedBy(QidsOf(stdout), QidsOf(lines))

(* C4, amended: the report lists the query ids in the order of their first *)
(* surviving line (well-formed, percent identity at least the threshold),  *)
(* the matches of one query id contiguous and in the order of their lines. *)
C4_FirstSurvivingOrder ==
    Reported =>
        /\ Grouped(stdout, QidsOf(stdout), ExpectedOf(Survivors),
                   QidsOf(Survivors))
        /\ OrderedBy(QidsOf(stdout), QidsOf(Survivors))

\* three surviving lines with the query ids x, y, x are reported x, x, y
C4_Witness ==
    /\ Reported
    /\ Len(lines) = 3 /\ Len(stdout) = 3
    /\ QidOf(lines[1]) = QidOf(lines[3])
    /\ QidOf(lines[1]) /= QidOf(lines[2])
    /\ lines[1] /= lines[3]
    /\ stdout = <<Expected(lines[1]), Expected(lines[3]), Expected(lines[2])>>

\* xs and ys hold the same items, each as often
SameItems(xs, ys) ==
    \A x \in Chars(xs) \cup Chars(ys) :
        Cardinality({a \in DOMAIN xs : xs[a] = x})
        = Cardinality({a \in DOMAIN ys : ys[a] = x})

RECURSIVE DiagnosticsOf(_)
\* what the error stream holds for the lines of ls
DiagnosticsOf(ls) ==
    IF ls = <<>> THEN <<>>
    ELSE <<Diagnostic(Head(ls))>> \o DiagnosticsOf(Tail(ls))

(* C5: once the report is printed it holds exactly one line for every      *)
(* well-formed line that meets the threshold and no other line, and the    *)
(* error stream holds a line for the lines that are not well-formed only:  *)
(* a well-formed line below the threshold gives neither.                   *)
C5_OneReportLinePerSurvivor ==
    Reported =>
        /\ Len(stdout) = Len(Survivors)
        /\ SameItems(stdout, ExpectedOf(Survivors))
        /\ stderr = DiagnosticsOf(SelectSeq(lines, LAMBDA l : ~WellFormed(l)))

\* a report of two lines from an output with a line at the threshold, a
\* line above it and a well-formed line below it
C5_Witness ==
    /\ Reported
    /\ Len(lines) = 3 /\ Len(stdout) = 2 /\ stderr = <<>>
    /\ \E n \in DOMAIN lines : float(Fields(lines[n])[3]) = similarity
    /\ \E n \in DOMAIN lines :
           /\ float(Fields(lines[n])[3]).kind = "num"
           /\ ~GE(float(Fields(lines[n])[3]), similarity)

(* C10: every key of the collection maps to a non-empty sequence and is    *)
(* the query id of a surviving line the loop has passed; a line that is    *)
(* malformed or below the threshold leaves the collection unchanged.       *)
C10_NoEmptyKey ==
    [][ pc = "for_line" =>
          /\ \A k \in DOMAIN matches' :
                 /\ matches'[k].val /= <<>>
                 /\ \E n \in DOMAIN lines :
                        /\ n < i'
                        /\ Survives(lines[n])
                        /\ QidOf(lines[n]) = matches'[k].key
          /\ (AtLine /\ ~Survives(lines[i])) => matches' = matches
      ]_vars

\* the loop has passed lines of one query id, none of them surviving, and
\* a surviving line of another: only the other is a key
C10_Witness ==
    /\ Reported
    /\ Len(matches) = 1
    /\ \E a, b \in Processed :
           /\ WellFormed(lines[a]) /\ ~Survives(lines[a])
           /\ ~WellFormed(lines[b]) /\ FiveFields(lines[b])
           /\ QidOf(lines[a]) = QidOf(lines[b])
           /\ QidOf(lines[a]) \notin Keys(matches)

----------------------------------------------------------------------------
(* Properties of run().                                                    *)

\* the operations run performs, in the order of the source
RunOrder == <<"dump_fasta", "dump_fasta", "makedb", "blastp">>

\* diamond has been invoked for op and has returned a non-zero status
ToolFailed(op) ==
    \E k \in DOMAIN calls : calls[k].op = op /\ calls[k].returncode /= 0

\* both exports have returned and both invocations have returned zero
AllSucceeded ==
    Len(calls) = 4 /\ \A k \in DOMAIN calls : calls[k].returncode = 0

(* C6: run exports the reference, exports the query, builds the index and  *)
(* runs the query, in this order; after a failed index build the query is  *)
(* never started; after a failed invocation nothing is printed and the     *)
(* process ends with a non-zero status; find_matches and the report come   *)
(* only after both invocations have succeeded.                             *)
C6_AbortOnToolFailure ==
    /\ Len(calls) <= 4
    /\ \A k \in DOMAIN calls : calls[k].op = RunOrder[k]
    /\ Len(calls) >= 1 => calls[1].file = reference
    /\ Len(calls) >= 2 => calls[2].file = query
    /\ ToolFailed("makedb") =>
           /\ \A k \in DOMAIN calls : calls[k].op /= "blastp"
           /\ stdout = <<>>
           /\ Exited /\ ExitStatus /= 0
    /\ ToolFailed("blastp") =>
           /\ stdout = <<>>
           /\ pc \in {"check_returncode", "exit"}
           /\ Exited => ExitStatus /= 0
    /\ (stdout /= <<>> \/ pc \in {"find_matches", "for_line", "if_not_keep"})
           => AllSucceeded

\* blastp has failed after writing a table with a line that survives, and
\* the process has ended without a report
C6_Witness ==
    /\ Exited /\ ExitStatus /= 0
    /\ ToolFailed("blastp")
    /\ Len(SelectSeq(splitlines(ret.stdout),
                     LAMBDA l : WellFormed(l)
                         /\ GE(float(Fields(l)[3]), similarity))) > 0
    /\ stdout = <<>>

(* C7: when both invocations succeed, run ends with exit status zero, with *)
(* none of the intermediate files (the two sequence files, the index) on   *)
(* disk if keep is not set and with all of them on disk if it is.          *)
C7_CleanupOrKeep ==
    (Exited /\ AllSucceeded) =>
        /\ ExitStatus = 0
        /\ keep => {referece_fasta, query_fasta, DbFile} \subseteq files
        /\ ~keep => files \cap {referece_fasta, query_fasta, DbFile} = {}

\* the failing input: two paths that differ in the directory only, keep
\* not set; the second os.remove raises and the index stays on disk
C7_FailingInput ==
    /\ Exited /\ AllSucceeded /\ ~keep
    /\ reference /= query /\ referece_fasta = query_fasta
    /\ exc = "FileNotFoundError"
    /\ DbFile \in files

\* where the last component of path starts
BaseStart(path) == RFind(path, "/") + 1

\* the last component of path has an extension: a last dot with something
\* other than a dot before it
HasExtension(path) ==
    \E d \in BaseStart(path)..Len(path) :
        /\ path[d] = "."
        /\ \A k \in (d + 1)..Len(path) : path[k] /= "."
        /\ \E k \in BaseStart(path)..(d - 1) : path[k] /= "."

\* name is the last component of path with its extension, if it has one,
\* replaced by .fa
DerivedFrom(path, name) ==
    /\ Len(name) >= 3
    /\ SubSeq(name, Len(name) - 2, Len(name)) = <<".", "f", "a">>
    /\ "/" \notin Chars(name)
    /\ LET stem == SubSeq(name, 1, Len(name) - 3)
           rest == SubSeq(path, BaseStart(path) + Len(stem), Len(path))
       IN /\ stem = SubSeq(path, BaseStart(path),
                           BaseStart(path) + Len(stem) - 1)
          /\ IF HasExtension(path)
             THEN rest /= <<>> /\ rest[1] = "."
                  /\ \A k \in 2..Len(rest) : rest[k] /= "."
             ELSE rest = <<>>

\* p and q differ in their directory part at most
SameButDirectory(p, q) ==
    \E n \in 0..Len(p) :
        /\ n <= Len(q)
        /\ SubSeq(p, Len(p) - n + 1, Len(p)) = SubSeq(q, Len(q) - n + 1, Len(q))
        /\ "/" \notin Chars(SubSeq(p, Len(p) - n + 1, Len(p)))
        /\ n = Len(p) \/ p[Len(p) - n] = "/"
        /\ n = Len(q) \/ q[Len(q) - n] = "/"

(* C8: the name derive_fasta_name returns is the last component of the     *)
(* path with its extension replaced by .fa; it holds no path separator,    *)
(* and two paths that differ in the directory only give the same name.     *)
C8_DerivedName ==
    /\ (Len(calls) = 1 /\ fasta_file /= <<>>)
           => DerivedFrom(reference, fasta_file)
    /\ referece_fasta /= <<>> => DerivedFrom(reference, referece_fasta)
    /\ query_fasta /= <<>> => DerivedFrom(query, query_fasta)
    /\ (referece_fasta /= <<>> /\ query_fasta /= <<>>
        /\ SameButDirectory(reference, query))
           => referece_fasta = query_fasta

\* both names are derived, from two paths that differ in the directory
\* only, and the extension of the reference has been replaced
C8_Witness ==
    /\ referece_fasta /= <<>> /\ query_fasta /= <<>>
    /\ reference /= query
    /\ SameButDirectory(reference, query)
    /\ "/" \in Chars(reference)
    /\ HasExtension(reference)
    /\ referece_fasta = query_fasta

\* run has failed before the report and the files it made are on disk
FailedKeepsFiles ==
    (Exited /\ exc \notin {"none", "FileNotFoundError"}) =>
        /\ fasta_file /= <<>> => fasta_file \in files
        /\ referece_fasta /= <<>> => referece_fasta \in files
        /\ query_fasta /= <<>> => query_fasta \in files
        /\ (\E k \in DOMAIN calls :
                calls[k].op = "makedb" /\ calls[k].returncode = 0)
               => DbFile \in files

(* C9: a file leaves the disk only in the removals that follow the report  *)
(* of a run that succeeded with keep not set; when an export or an         *)
(* invocation fails, every intermediate file made so far is on disk when   *)
(* the process ends, whatever keep is.                                     *)
C9_NoCleanupOnFailure ==
    [][ /\ ~(files \subseteq files')
           => /\ pc \in {"if_not_keep", "remove_query", "remove_db"}
              /\ ~keep /\ AllSucceeded /\ exc = "none"
        /\ FailedKeepsFiles'
      ]_vars

\* the query step has failed with keep not set and with the two sequence
\* files and the index on disk
C9_Witness ==
    /\ Exited /\ exc = "CalledProcessError" /\ ~keep
    /\ ToolFailed("blastp")
    /\ referece_fasta /= query_fasta
    /\ {referece_fasta, query_fasta, DbFile} \subseteq files

====
